---- MODULE Spec2Model ----
(***************************************************************************)
(* Model of the LoadConfig derive (load-config-derive/src/lib.rs) as       *)
(* instantiated for struct Opts (rust-cli/src/main.rs).                    *)
(*                                                                         *)
(* The generated API has two kinds of entry points, and the model has one  *)
(* run mode for each:                                                      *)
(*   mode = "load": one call of Opts::load_config(), one action per        *)
(*                  statement of its body, over a command line, a file     *)
(*                  system and a process environment drawn in Init;        *)
(*   mode = "fn"  : direct calls of the generated pub fns merge, resolve   *)
(*                  and the From conversion on arbitrary ConfigLoaderOpts  *)
(*                  values drawn in Init.                                  *)
(*                                                                         *)
(* Option<T> is modelled as a sequence: None is <<>>, Some(v) is <<v>>.    *)
(* A String is a TLA+ string; the text handed to a u8 parser is a sequence *)
(* of one-character strings so that parsing is computed, not assumed.      *)
(***************************************************************************)
EXTENDS Integers, Sequences, FiniteSets

\* ------------------------------------------------------------------ bounds
MaxArgs == 1   \* flags passed on the command line
MaxKeys == 1   \* keys in a configuration document
MaxVars == 1   \* environment variables set

\* ------------------------------------------------------- struct Opts table
Fields == {"config", "first_name", "last_name", "age"}

FieldType ==
  [config |-> "String", first_name |-> "String", last_name |-> "String", age |-> "u8"]

\* #[clap(default_value = ...)] / default_value_t of each field
DefaultValue ==
  [config |-> "config.yml", first_name |-> "John", last_name |-> "Doe", age |-> 42]

\* <T as Default>::default() of each field's type
TypeDefault ==
  [config |-> "", first_name |-> "", last_name |-> "", age |-> 0]

\* serde(rename_all = "kebab-case") key of each field
KebabName ==
  [config |-> "config", first_name |-> "first-name", last_name |-> "last-name", age |-> "age"]

\* to_string().to_uppercase() of each field identifier
EnvName ==
  [config |-> "CONFIG", first_name |-> "FIRST_NAME", last_name |-> "LAST_NAME", age |-> "AGE"]

\* is_option_type(ty): no field of Opts is declared Option<...>
is_option_type ==
  [config |-> FALSE, first_name |-> FALSE, last_name |-> FALSE, age |-> FALSE]

U8Max == 255

\* ------------------------------------------------------------------ Option
None == <<>>
Some(v) == <<v>>
IsSome(o) == o # None
Unwrap(o) == o[1]

\* Option::or_else(|| alt)
OrElse(o, alt) == IF IsSome(o) THEN o ELSE alt

\* Option::xor
Xor(o, alt) ==
  IF IsSome(o) /\ ~IsSome(alt) THEN o
  ELSE IF ~IsSome(o) /\ IsSome(alt) THEN alt
  ELSE None

\* Option::unwrap_or_default for field f
UnwrapOrDefault(f, o) == IF IsSome(o) THEN Unwrap(o) ELSE TypeDefault[f]

\* ----------------------------------------------------------------- parsing
Digits == <<"0", "1", "2", "3", "4", "5", "6", "7", "8", "9">>
IsDigit(c) == \E i \in 1..Len(Digits) : Digits[i] = c
DigitVal(c) == (CHOOSE i \in 1..Len(Digits) : Digits[i] = c) - 1

RECURSIVE ParseDigits(_, _)
ParseDigits(s, acc) ==
  IF s = <<>> THEN Some(acc)
  ELSE IF ~IsDigit(Head(s)) THEN None
  ELSE LET n == acc * 10 + DigitVal(Head(s))
       IN  IF n > U8Max THEN None ELSE ParseDigits(Tail(s), n)

\* str::parse::<u8>().ok(): optional '+', then one or more decimal digits,
\* checked against u8::MAX
ParseU8(s) ==
  IF s = <<>> THEN None
  ELSE LET t == IF Head(s) = "+" THEN Tail(s) ELSE s
       IN  IF t = <<>> THEN None ELSE ParseDigits(t, 0)

\* str::parse::<T>().ok() for the declared type of field f
ParseField(f, raw) == IF FieldType[f] = "u8" THEN ParseU8(raw) ELSE Some(raw)

\* ------------------------------------------------------- ConfigLoaderOpts
\* struct ConfigLoaderOpts: every field of Opts wrapped in Option
AllAbsent == [f \in Fields |-> None]
AllPresent(p) == \A f \in Fields : IsSome(p[f])

\* a local that has not been bound yet
Unbound == <<>>

\* ConfigLoaderOpts::merge with lhs and rhs exchanged in the field expression
merge_left_biased(lhs, rhs) == [f \in Fields |-> OrElse(lhs[f], rhs[f])]

\* ConfigLoaderOpts::merge with or_else replaced by xor
merge_xor(lhs, rhs) == [f \in Fields |-> Xor(rhs[f], lhs[f])]

\* ConfigLoaderOpts::merge(lhs, rhs)
merge(lhs, rhs) == [f \in Fields |-> OrElse(rhs[f], lhs[f])]

\* ConfigLoaderOpts::resolve with the test "cli differs from the default"
\* written as "cli has a value"
resolve_cli_wins(cli, dflt, precedence) ==
  [f \in Fields |-> IF IsSome(cli[f]) THEN cli[f] ELSE precedence[f]]

\* ConfigLoaderOpts::resolve with the two branches exchanged
resolve_swapped(cli, dflt, precedence) ==
  [f \in Fields |-> IF cli[f] # dflt[f] THEN precedence[f] ELSE cli[f]]

\* ConfigLoaderOpts::resolve(cli_opts, default_value_opts, precedence_opts)
resolve(cli, dflt, precedence) ==
  [f \in Fields |-> IF cli[f] # dflt[f] THEN cli[f] ELSE precedence[f]]

\* impl From<ConfigLoaderOpts> for Opts
From(opts) == [f \in Fields |-> UnwrapOrDefault(f, opts[f])]

\* the fields for which From falls back to the type default
Substituted(opts) == {f \in Fields : ~IsSome(opts[f])}

\* ------------------------------------------------------------ command line
\* the text a user may type after each flag
CliRaw ==
  [config     |-> {"config.yml", "other.yml"},
   first_name |-> {"John", "Jane"},
   last_name  |-> {"Roe"},
   age        |-> {<<"7">>, <<"4", "2">>, <<"0", "4", "2">>, <<"a", "b", "c">>}]

ArgChoices(f) == {None} \cup {Some(r) : r \in CliRaw[f]}
Passed(av) == {f \in Fields : IsSome(av[f])}

\* command lines: per flag, not passed (None) or passed with its text
Argvs ==
  {av \in {[config |-> c, first_name |-> fn, last_name |-> ln, age |-> a] :
             c \in ArgChoices("config"), fn \in ArgChoices("first_name"),
             ln \in ArgChoices("last_name"), a \in ArgChoices("age")} :
     Cardinality(Passed(av)) <= MaxArgs}

NoArgs == [f \in Fields |-> None]

\* ConfigLoaderOpts::parse_from(argv): a flag that is passed is parsed as the
\* field's type, a flag that is not passed takes the declared default; a
\* value that does not parse makes clap report the error and exit.
ParseArg(f, a) == IF IsSome(a) THEN ParseField(f, Unwrap(a)) ELSE Some(DefaultValue[f])
parse_from(av) ==
  LET opts == [f \in Fields |-> ParseArg(f, av[f])]
  IN  [ok |-> AllPresent(opts), opts |-> opts]

\* ------------------------------------------------------------- file system
Paths == {"config.yml", "other.yml"}

YNull == [t |-> "null"]
YStr(v) == [t |-> "str", v |-> v]
YInt(n) == [t |-> "int", v |-> n]

\* the values a document may give to each key; "first_name" is not the
\* kebab-case key of any field
YamlKeys == {"age", "first-name", "first_name"}
YamlVals(k) ==
  IF k = "age" THEN {YInt(30), YInt(300), YNull}
  ELSE {YStr("Jane")}

Mappings ==
  UNION {{m \in [D -> UNION {YamlVals(k) : k \in D}] : \A k \in D : m[k] \in YamlVals(k)} :
           D \in {D \in SUBSET YamlKeys : Cardinality(D) <= MaxKeys}}

Garbage == [y |-> "garbage"]
Docs == {Garbage} \cup {[y |-> "map", m |-> m] : m \in Mappings}

Missing == [k |-> "missing"]
Unreadable == [k |-> "unreadable"]
FileStates == {Missing, Unreadable} \cup {[k |-> "file", doc |-> d] : d \in Docs}
FileSystems == [Paths -> FileStates]

\* std::path::Path::new(p).exists()
Exists(files, p) == p \in Paths /\ files[p].k # "missing"

\* serde decoding of one Option field from the mapping m
DecodeField(f, m) ==
  LET key == KebabName[f]
  IN  IF key \notin DOMAIN m THEN [ok |-> TRUE, v |-> None]
      ELSE IF m[key].t = "null" THEN [ok |-> TRUE, v |-> None]
      ELSE IF FieldType[f] = "u8"
           THEN IF m[key].t = "int" /\ m[key].v >= 0 /\ m[key].v <= U8Max
                THEN [ok |-> TRUE, v |-> Some(m[key].v)]
                ELSE [ok |-> FALSE, v |-> None]
           ELSE IF m[key].t = "str"
                THEN [ok |-> TRUE, v |-> Some(m[key].v)]
                ELSE [ok |-> FALSE, v |-> None]

\* serde_yaml::from_str::<ConfigLoaderOpts>(contents)
from_str(doc) ==
  IF doc.y = "garbage" THEN [ok |-> FALSE, opts |-> Unbound]
  ELSE LET d == [f \in Fields |-> DecodeField(f, doc.m)]
       IN  IF \A f \in Fields : d[f].ok
           THEN [ok |-> TRUE, opts |-> [f \in Fields |-> d[f].v]]
           ELSE [ok |-> FALSE, opts |-> Unbound]

\* the all-absent value in place of the clone of the defaults
yml_absent(files, cli, dflt) ==
  IF IsSome(cli["config"])
  THEN IF Exists(files, Unwrap(cli["config"]))
       THEN IF files[Unwrap(cli["config"])].k = "file"
            THEN from_str(files[Unwrap(cli["config"])].doc)
            ELSE [ok |-> TRUE, opts |-> AllAbsent]
       ELSE [ok |-> TRUE, opts |-> AllAbsent]
  ELSE [ok |-> TRUE, opts |-> AllAbsent]

\* the decode error swallowed like the read error
yml_lenient(files, cli, dflt) ==
  IF IsSome(cli["config"]) /\ Exists(files, Unwrap(cli["config"]))
     /\ files[Unwrap(cli["config"])].k = "file"
     /\ from_str(files[Unwrap(cli["config"])].doc).ok
  THEN from_str(files[Unwrap(cli["config"])].doc)
  ELSE [ok |-> TRUE, opts |-> dflt]

\* the let yml_opts = ... expression of load_config
yml(files, cli, dflt) ==
  IF IsSome(cli["config"])
  THEN IF Exists(files, Unwrap(cli["config"]))
       THEN IF files[Unwrap(cli["config"])].k = "file"
            THEN from_str(files[Unwrap(cli["config"])].doc)
            ELSE [ok |-> TRUE, opts |-> dflt]
       ELSE [ok |-> TRUE, opts |-> dflt]
  ELSE [ok |-> TRUE, opts |-> dflt]

\* ------------------------------------------------------------- environment
Unset == [k |-> "unset"]
NotUnicode == [k |-> "bytes"]
EnvStr(s) == [k |-> "str", s |-> s]

EnvRaw ==
  [config     |-> {"other.yml"},
   first_name |-> {"Jane", ""},
   last_name  |-> {"Roe"},
   age        |-> {<<"5", "1">>, <<"3", "0", "0">>, <<"a", "b", "c">>, <<"+", "7">>}]

EnvChoices(f) == {Unset, NotUnicode} \cup {EnvStr(r) : r \in EnvRaw[f]}
VarsSet(e) == {f \in Fields : e[f].k # "unset"}

\* process environments, indexed by the field whose variable EnvName[f] it is
Environments ==
  {e \in {[config |-> c, first_name |-> fn, last_name |-> ln, age |-> a] :
            c \in EnvChoices("config"), fn \in EnvChoices("first_name"),
            ln \in EnvChoices("last_name"), a \in EnvChoices("age")} :
     Cardinality(VarsSet(e)) <= MaxVars}

\* std::env::var(name).ok()
EnvVar(e, f) == IF e[f].k = "str" THEN Some(e[f].s) ELSE None

\* the value from_env gives field f with the parse failure taken as the
\* type default instead of None
env_field_defaulting(e, f) ==
  IF is_option_type[f] THEN EnvVar(e, f)
  ELSE IF IsSome(EnvVar(e, f))
       THEN Some(UnwrapOrDefault(f, ParseField(f, Unwrap(EnvVar(e, f)))))
       ELSE None

\* the value from_env gives field f
env_field(e, f) ==
  IF is_option_type[f] THEN EnvVar(e, f)
  ELSE IF IsSome(EnvVar(e, f)) THEN ParseField(f, Unwrap(EnvVar(e, f))) ELSE None

\* ConfigLoaderOpts::from_env()
from_env(e) == [f \in Fields |-> env_field(e, f)]

\* ------------------------------------------------------------ load_config
Ok(cfg) == [ok |-> TRUE, cfg |-> cfg]
Err == [ok |-> FALSE, err |-> "decode"]
Exit == [ok |-> FALSE, err |-> "clap exit"]

\* Opts::load_config() as one function of the command line, the file system
\* and the environment
load_config(av, files, e) ==
  LET d == parse_from(NoArgs).opts
      p == parse_from(av)
  IN  IF ~p.ok THEN Exit
      ELSE LET y == yml(files, p.opts, d)
           IN  IF ~y.ok THEN Err
               ELSE Ok(From(resolve(p.opts, d, merge(merge(d, y.opts), from_env(e)))))

\* ---------------------------------------------------- direct-call operands
FnChoices(f) ==
  IF f = "age" THEN {None, Some(42), Some(7)}
  ELSE {None, Some(DefaultValue[f])}

\* the ConfigLoaderOpts values handed to the generated functions directly
PartialConfigs ==
  {[config |-> c, first_name |-> fn, last_name |-> ln, age |-> a] :
     c \in FnChoices("config"), fn \in FnChoices("first_name"),
     ln \in FnChoices("last_name"), a \in FnChoices("age")}

\* the file system the direct calls run against
FnFiles ==
  [p \in Paths |-> IF p = "config.yml"
                   THEN [k |-> "file", doc |-> [y |-> "map", m |-> [age |-> YInt(30)]]]
                   ELSE Missing]

NoEnv == [f \in Fields |-> Unset]

\* ------------------------------------------------------------------- state
VARIABLES
  mode,                \* "load": a run of load_config; "fn": direct calls
  pc,                  \* the statement about to run
  argv, fs, env,       \* the process's command line, files and environment
  default_value_opts, cli_opts, yml_opts, env_opts, precedence_opts, final_opts,
  substituted,         \* fields for which From used the type default
  result,              \* what load_config returned
  a, b, c,             \* operands of the direct calls
  ab, ab_c, bc, a_bc,  \* merge(a,b), merge(ab,c), merge(b,c), merge(a,bc)
  res, yres, cfg       \* resolve(a,b,c), yml(fs,a,b), Opts::from(res)

inputs == <<mode, argv, fs, env, a, b, c>>
locals == <<default_value_opts, cli_opts, yml_opts, env_opts, precedence_opts,
            final_opts, substituted, result>>
fnrets == <<ab, ab_c, bc, a_bc, res, yres, cfg>>
vars == <<pc, inputs, locals, fnrets>>

InitLoad ==
  /\ mode = "load"
  /\ pc = "defaults"
  /\ argv \in Argvs
  /\ fs \in FileSystems
  /\ env \in Environments
  /\ a = AllAbsent /\ b = AllAbsent /\ c = AllAbsent

InitFn ==
  /\ mode = "fn"
  /\ pc = "merge_ab"
  /\ argv = NoArgs
  /\ fs = FnFiles
  /\ env = NoEnv
  /\ a \in PartialConfigs /\ b \in PartialConfigs /\ c \in PartialConfigs

Init ==
  /\ InitLoad \/ InitFn
  /\ default_value_opts = Unbound /\ cli_opts = Unbound /\ yml_opts = Unbound
  /\ env_opts = Unbound /\ precedence_opts = Unbound /\ final_opts = Unbound
  /\ substituted = {} /\ result = Unbound
  /\ ab = Unbound /\ ab_c = Unbound /\ bc = Unbound /\ a_bc = Unbound
  /\ res = Unbound /\ yres = Unbound /\ cfg = Unbound

\* ------------------------------------------------- load_config, by statement
\* let default_value_opts = ConfigLoaderOpts::parse_from([] as [&str; 0]);
ParseDefaults ==
  /\ mode = "load" /\ pc = "defaults"
  /\ default_value_opts' = parse_from(NoArgs).opts
  /\ pc' = "cli"
  /\ UNCHANGED <<inputs, fnrets, cli_opts, yml_opts, env_opts, precedence_opts,
                 final_opts, substituted, result>>

\* let cli_opts = ConfigLoaderOpts::parse_from(args.as_slice());
ParseCli ==
  /\ mode = "load" /\ pc = "cli"
  /\ parse_from(argv).ok
  /\ cli_opts' = parse_from(argv).opts
  /\ pc' = "file"
  /\ UNCHANGED <<inputs, fnrets, default_value_opts, yml_opts, env_opts,
                 precedence_opts, final_opts, substituted, result>>

\* the same statement when clap rejects the command line: the process exits
ParseCliExit ==
  /\ mode = "load" /\ pc = "cli"
  /\ ~parse_from(argv).ok
  /\ pc' = "exit"
  /\ UNCHANGED <<inputs, fnrets, locals>>

\* let yml_opts = if let Some(config_path) = ... ;
ReadFile ==
  /\ mode = "load" /\ pc = "file"
  /\ yml(fs, cli_opts, default_value_opts).ok
  /\ yml_opts' = yml(fs, cli_opts, default_value_opts).opts
  /\ pc' = "merge_file"
  /\ UNCHANGED <<inputs, fnrets, default_value_opts, cli_opts, env_opts,
                 precedence_opts, final_opts, substituted, result>>

\* the same statement when serde_yaml::from_str(..)? returns the error
ReadFileErr ==
  /\ mode = "load" /\ pc = "file"
  /\ ~yml(fs, cli_opts, default_value_opts).ok
  /\ result' = Err
  /\ pc' = "done"
  /\ UNCHANGED <<inputs, fnrets, default_value_opts, cli_opts, yml_opts, env_opts,
                 precedence_opts, final_opts, substituted>>

\* let precedence_opts = merge(&default_value_opts, &yml_opts);
MergeFile ==
  /\ mode = "load" /\ pc = "merge_file"
  /\ precedence_opts' = merge(default_value_opts, yml_opts)
  /\ pc' = "env"
  /\ UNCHANGED <<inputs, fnrets, default_value_opts, cli_opts, yml_opts, env_opts,
                 final_opts, substituted, result>>

\* let env_opts = ConfigLoaderOpts::from_env();
FromEnv ==
  /\ mode = "load" /\ pc = "env"
  /\ env_opts' = from_env(env)
  /\ pc' = "merge_env"
  /\ UNCHANGED <<inputs, fnrets, default_value_opts, cli_opts, yml_opts,
                 precedence_opts, final_opts, substituted, result>>

\* let precedence_opts = merge(&precedence_opts, &env_opts);
MergeEnv ==
  /\ mode = "load" /\ pc = "merge_env"
  /\ precedence_opts' = merge(precedence_opts, env_opts)
  /\ pc' = "resolve"
  /\ UNCHANGED <<inputs, fnrets, default_value_opts, cli_opts, yml_opts, env_opts,
                 final_opts, substituted, result>>

\* let final_opts = resolve(&cli_opts, &default_value_opts, &precedence_opts);
Resolve ==
  /\ mode = "load" /\ pc = "resolve"
  /\ final_opts' = resolve(cli_opts, default_value_opts, precedence_opts)
  /\ pc' = "into"
  /\ UNCHANGED <<inputs, fnrets, default_value_opts, cli_opts, yml_opts, env_opts,
                 precedence_opts, substituted, result>>

\* Ok(final_opts.into())
Into ==
  /\ mode = "load" /\ pc = "into"
  /\ substituted' = Substituted(final_opts)
  /\ result' = Ok(From(final_opts))
  /\ pc' = "done"
  /\ UNCHANGED <<inputs, fnrets, default_value_opts, cli_opts, yml_opts, env_opts,
                 precedence_opts, final_opts>>

\* ------------------------------------ direct calls of the generated functions
CallMergeAB ==
  /\ mode = "fn" /\ pc = "merge_ab"
  /\ ab' = merge(a, b)
  /\ pc' = "merge_ab_c"
  /\ UNCHANGED <<inputs, locals, ab_c, bc, a_bc, res, yres, cfg>>

CallMergeAB_C ==
  /\ mode = "fn" /\ pc = "merge_ab_c"
  /\ ab_c' = merge(ab, c)
  /\ pc' = "merge_bc"
  /\ UNCHANGED <<inputs, locals, ab, bc, a_bc, res, yres, cfg>>

CallMergeBC ==
  /\ mode = "fn" /\ pc = "merge_bc"
  /\ bc' = merge(b, c)
  /\ pc' = "merge_a_bc"
  /\ UNCHANGED <<inputs, locals, ab, ab_c, a_bc, res, yres, cfg>>

CallMergeA_BC ==
  /\ mode = "fn" /\ pc = "merge_a_bc"
  /\ a_bc' = merge(a, bc)
  /\ pc' = "call_resolve"
  /\ UNCHANGED <<inputs, locals, ab, ab_c, bc, res, yres, cfg>>

\* resolve(&a, &b, &c): a as the command line, b as the defaults, c as baseline
CallResolve ==
  /\ mode = "fn" /\ pc = "call_resolve"
  /\ res' = resolve(a, b, c)
  /\ pc' = "call_yml"
  /\ UNCHANGED <<inputs, locals, ab, ab_c, bc, a_bc, yres, cfg>>

\* the yml_opts expression with a as cli_opts and b as default_value_opts
CallYml ==
  /\ mode = "fn" /\ pc = "call_yml"
  /\ yres' = yml(fs, a, b)
  /\ pc' = "call_from"
  /\ UNCHANGED <<inputs, locals, ab, ab_c, bc, a_bc, res, cfg>>

\* Opts::from(res)
CallFrom ==
  /\ mode = "fn" /\ pc = "call_from"
  /\ cfg' = From(res)
  /\ pc' = "returned"
  /\ UNCHANGED <<inputs, locals, ab, ab_c, bc, a_bc, res, yres>>

Next ==
  \/ ParseDefaults \/ ParseCli \/ ParseCliExit \/ ReadFile \/ ReadFileErr
  \/ MergeFile \/ FromEnv \/ MergeEnv \/ Resolve \/ Into
  \/ CallMergeAB \/ CallMergeAB_C \/ CallMergeBC \/ CallMergeA_BC
  \/ CallResolve \/ CallYml \/ CallFrom

Spec == Init /\ [][Next]_vars

\* ------------------------------------------------------------ sanity checks
TypeOK ==
  /\ mode \in {"load", "fn"}
  /\ pc \in {"defaults", "cli", "exit", "file", "merge_file", "env", "merge_env",
             "resolve", "into", "done", "merge_ab", "merge_ab_c", "merge_bc",
             "merge_a_bc", "call_resolve", "call_yml", "call_from", "returned"}

\* the statements, run one by one, return what load_config returns as a function
StepwiseIsLoadConfig ==
  /\ (mode = "load" /\ pc = "done") => result = load_config(argv, fs, env)
  /\ (mode = "load" /\ pc = "exit") => load_config(argv, fs, env) = Exit

\* ------------------------------------------------------------ claim helpers
Bound(v) == v # Unbound
LoadReturnedOk == mode = "load" /\ pc = "done" /\ result.ok

\* the file the run reads: the one named by the parsed config field
ConfigFile == fs[Unwrap(cli_opts["config"])]

\* the value the file read by the run gives field f, if the file is there,
\* is a mapping and sets the field's key to something
FileValue(f) ==
  IF ConfigFile.k = "file" /\ ConfigFile.doc.y = "map"
     /\ KebabName[f] \in DOMAIN ConfigFile.doc.m
     /\ ConfigFile.doc.m[KebabName[f]].t # "null"
  THEN Some(ConfigFile.doc.m[KebabName[f]].v)
  ELSE None

\* the value the environment gives field f when its variable is set to text
\* that parses as the field's type
EnvValue(f) == IF env[f].k = "str" THEN ParseField(f, env[f].s) ELSE None

\* the variable of f is set, but not to text that parses as the field's type
EnvUnparseable(f) == env[f].k # "unset" /\ ~IsSome(EnvValue(f))

\* ----------------------------------------------------------------- claims
\* C1: resolver override. For every field f with cliOpts.f # defaultOpts.f
\* (differing values, or present against absent) resolve(...).f is cliOpts.f
\* whatever the baseline holds; and a load that returns a Configuration
\* returns, for every field whose parsed command-line value differs from the
\* default, that command-line value, whatever file and environment supply.
C1_ResolverOverride ==
  /\ (mode = "fn" /\ Bound(res)) =>
       \A f \in Fields : a[f] # b[f] => res[f] = a[f]
  /\ (mode = "load" /\ Bound(final_opts)) =>
       \A f \in Fields : cli_opts[f] # default_value_opts[f] => final_opts[f] = cli_opts[f]
  /\ LoadReturnedOk =>
       \A f \in Fields :
         cli_opts[f] # default_value_opts[f] => result.cfg[f] = Unwrap(cli_opts[f])

\* Scenario D: file sets age: 30, AGE=51, --age 7, and the load returned age 7;
\* and a direct call where the command line has a value and the defaults none.
C1_Witness ==
  \/ /\ LoadReturnedOk
     /\ argv["age"] = Some(<<"7">>)
     /\ FileValue("age") = Some(30)
     /\ EnvValue("age") = Some(51)
     /\ result.cfg["age"] = 7
  \/ /\ mode = "fn" /\ Bound(res)
     /\ a["age"] = Some(7) /\ b["age"] = None /\ c["age"] = Some(42)
     /\ res["age"] = Some(7)

\* C2: merge(A,B).f is B.f when B.f is present and A.f otherwise.
C2_MergeRightBiased ==
  /\ (mode = "fn" /\ Bound(ab)) =>
       \A f \in Fields : ab[f] = IF IsSome(b[f]) THEN b[f] ELSE a[f]
  /\ (mode = "load" /\ pc = "env") =>
       \A f \in Fields :
         precedence_opts[f] = IF IsSome(yml_opts[f]) THEN yml_opts[f]
                              ELSE default_value_opts[f]

\* both operands present with different values: the right one is returned
C2_Witness ==
  /\ mode = "fn" /\ Bound(ab)
  /\ a["age"] = Some(42) /\ b["age"] = Some(7) /\ ab["age"] = Some(7)
  /\ a["config"] = Some("config.yml") /\ b["config"] = None
  /\ ab["config"] = Some("config.yml")

\* C3: merge is associative: merge(merge(A,B),C) = merge(A,merge(B,C)).
C3_MergeAssociative ==
  (mode = "fn" /\ Bound(ab_c) /\ Bound(a_bc)) => ab_c = a_bc

\* all three operands present for age, with the outer two differing, and a
\* field only the middle operand has
C3_Witness ==
  /\ mode = "fn" /\ Bound(ab_c) /\ Bound(a_bc)
  /\ a["age"] = Some(42) /\ b["age"] = Some(7) /\ c["age"] = Some(7)
  /\ a["config"] = None /\ IsSome(b["config"]) /\ c["config"] = None
  /\ ab_c["age"] = Some(7) /\ IsSome(a_bc["config"])

\* C4: resolver identity. If cliOpts.f = defaultOpts.f for every field then
\* resolve(cliOpts, defaultOpts, baseline) is the baseline, field by field.
C4_ResolverIdentity ==
  /\ (mode = "fn" /\ Bound(res) /\ \A f \in Fields : a[f] = b[f]) => res = c
  /\ (mode = "load" /\ Bound(final_opts)
        /\ \A f \in Fields : cli_opts[f] = default_value_opts[f]) =>
       final_opts = precedence_opts

\* command line equal to the defaults, baseline different from both, in a
\* present field and in an absent one
C4_Witness ==
  /\ mode = "fn" /\ Bound(res)
  /\ a = b
  /\ a["age"] = Some(42) /\ c["age"] = Some(7)
  /\ IsSome(a["config"]) /\ c["config"] = None
  /\ res = c

\* C5: with no effective command-line flag (the parsed command line equals
\* the zero-argument parse in every field) the returned Configuration holds,
\* per field, the environment's value if the variable is set and parses, else
\* the file's value if the file exists and sets the field, else the default.
C5_BaselinePrecedence ==
  (LoadReturnedOk /\ cli_opts = default_value_opts) =>
    \A f \in Fields :
      result.cfg[f] = IF IsSome(EnvValue(f)) THEN Unwrap(EnvValue(f))
                      ELSE IF IsSome(FileValue(f)) THEN Unwrap(FileValue(f))
                      ELSE DefaultValue[f]

\* Scenario C: file sets age: 30, AGE=51, no flag: age is 51
C5_Witness ==
  /\ LoadReturnedOk /\ argv = NoArgs
  /\ FileValue("age") = Some(30) /\ EnvValue("age") = Some(51)
  /\ result.cfg["age"] = 51
  /\ result.cfg["first_name"] = "John"

\* Scenarios A and B are reached as well
C5_ScenarioB ==
  /\ LoadReturnedOk /\ argv = NoArgs /\ env = NoEnv
  /\ FileValue("age") = Some(30) /\ result.cfg["age"] = 30

\* C6: Scenario E. A flag typed with text that parses to the field's default
\* is not seen as typed: the Configuration holds the baseline value of the
\* field, and the load returns what the load without that flag returns.
C6_TypedDefaultIsInvisible ==
  (mode = "load" /\ pc = "done") =>
    \A f \in Passed(argv) :
      cli_opts[f] = default_value_opts[f] =>
        /\ result = load_config([argv EXCEPT ![f] = None], fs, env)
        /\ result.ok => result.cfg[f] = Unwrap(precedence_opts[f])

\* --age 42 typed, file sets age: 30: the Configuration has age 30
C6_Witness ==
  /\ LoadReturnedOk
  /\ argv["age"] = Some(<<"4", "2">>)
  /\ FileValue("age") = Some(30)
  /\ result.cfg["age"] = 30

C7_WitnessRange ==
  /\ mode = "load" /\ pc = "done" /\ result = Err
  /\ ConfigFile.k = "file" /\ ConfigFile.doc.y = "map"
  /\ EnvValue("age") = Some(51)

\* the run reads no file: no path, or nothing at the path
FileAbsent(cli) == ~IsSome(cli["config"]) \/ ~Exists(fs, Unwrap(cli["config"]))

\* C8 as stated: when the path is not specified or the file does not exist,
\* the file step raises no error and yields the all-absent value.
C8_AbsentFileYieldsAllAbsent ==
  /\ (mode = "load" /\ pc = "merge_file" /\ FileAbsent(cli_opts)) =>
       yml_opts = AllAbsent
  /\ (mode = "fn" /\ Bound(yres) /\ FileAbsent(a)) =>
       (yres.ok /\ yres.opts = AllAbsent)

\* C8 amended: when the path is not specified or the file does not exist, the
\* file step raises no error and yields a copy of the defaults, so that the
\* merge of it over the defaults is the defaults.
C8_AbsentFileYieldsDefaults ==
  /\ (mode = "load" /\ pc = "file" /\ FileAbsent(cli_opts)) =>
       yml(fs, cli_opts, default_value_opts).ok
  /\ (mode = "load" /\ Bound(cli_opts) /\ FileAbsent(cli_opts) /\ pc # "file") =>
       /\ Bound(yml_opts) /\ yml_opts = default_value_opts
       /\ result # Err
       /\ pc \in {"env", "merge_env"} => precedence_opts = default_value_opts
  /\ (mode = "fn" /\ Bound(yres) /\ FileAbsent(a)) =>
       (yres.ok /\ yres.opts = b)

\* nothing at the path of the run, the file step has run
C8_Witness ==
  /\ mode = "load" /\ pc = "merge_file"
  /\ ConfigFile = Missing
  /\ yml_opts = default_value_opts /\ yml_opts # AllAbsent

\* no path at all
C8_WitnessNoPath ==
  /\ mode = "fn" /\ Bound(yres) /\ a["config"] = None /\ yres.opts = b /\ b # AllAbsent

\* C9: the environment step never fails. A variable that is set and parses
\* gives a present value; one that is missing or does not parse gives absent;
\* and a load with an unparseable value for a field's variable returns what
\* the load without that variable returns, failing only if the file fails.
C9_EnvNeverFails ==
  /\ (mode = "load" /\ Bound(env_opts)) =>
       \A f \in Fields : env_opts[f] = EnvValue(f)
  /\ (mode = "load" /\ pc = "env") => ENABLED FromEnv
  /\ (mode = "load" /\ pc = "done") =>
       /\ result.ok = yml(fs, cli_opts, default_value_opts).ok
       /\ \A f \in Fields : EnvUnparseable(f) =>
            result = load_config(argv, fs, [env EXCEPT ![f] = Unset])

\* AGE is set to text that is no u8; the load returned the file's age
C9_Witness ==
  /\ LoadReturnedOk
  /\ env["age"] \in {EnvStr(<<"a", "b", "c">>), EnvStr(<<"3", "0", "0">>)}
  /\ env_opts["age"] = None
  /\ FileValue("age") = Some(30)
  /\ result.cfg["age"] = 30

\* a parseable value is reached as well, with a sign
C9_WitnessSigned ==
  /\ LoadReturnedOk /\ env["age"] = EnvStr(<<"+", "7">>) /\ result.cfg["age"] = 7

\* C10: in a load where the defaults and the parsed command line have every
\* field present, the resolved value handed to From has every field present
\* for any file and environment, so From never substitutes a type default.
C10_NoTypeDefault ==
  /\ (mode = "load" /\ Bound(final_opts)
        /\ AllPresent(default_value_opts) /\ AllPresent(cli_opts)) =>
       AllPresent(final_opts)
  /\ LoadReturnedOk =>
       /\ substituted = {}
       /\ \A f \in Fields : result.cfg[f] = Unwrap(final_opts[f])

\* the file leaves a field out, gives another as null, the environment gives
\* nothing usable: the load returned, and every field came from a source
C10_Witness ==
  /\ LoadReturnedOk
  /\ ConfigFile.k = "file" /\ ConfigFile.doc.y = "map"
  /\ "age" \in DOMAIN ConfigFile.doc.m /\ ConfigFile.doc.m["age"] = YNull
  /\ AllPresent(final_opts)
  /\ result.cfg["age"] = 42

====
